---- MODULE Spec2Model ----
(***************************************************************************)
(* FAAD2NodeDecoder (faad2_node_decoder.js): the transport between a       *)
(* caller and the WASM decoding engine, as a state machine; and the        *)
(* configuration synthesis of the MP4 extraction script                    *)
(* (lab/decode_mp4_complete.js).                                           *)
(*                                                                         *)
(* The engine (_init_decoder, _decode_frame, _malloc, _free) is an         *)
(* environment: every outcome it can produce is a nondeterministic choice. *)
(* Each handler is one action; JavaScript runs a synchronous handler to    *)
(* completion, so the only suspension point is configure's `await          *)
(* this.ready`, modelled by the queue `pending`.                           *)
(***************************************************************************)
EXTENDS Integers, Sequences, FiniteSets, TLC

VARIABLES
    module,       \* this.module: "null" until _init has loaded it, "loaded", or "failed" (ready rejected)
    initialized,  \* this.initialized
    sampleRate,   \* this.sampleRate
    channels,     \* this.channels
    pending,      \* configure calls suspended at `await this.ready`, oldest first
    outstanding,  \* engine-owned regions _malloc'ed and not yet _free'd
    last,         \* what the latest call did: its input, engine calls, outcome, steps
    outRegion,    \* the samples in engine memory where decode's output region lies
    kept,         \* the pcm of the first result decode returned, which its caller keeps: <<>> or <<pcm>>
    audioTrack,   \* decode_mp4_complete.js, extractAudioWithMP4Box: the audio track found
    audioConfig,  \* decode_mp4_complete.js, extractAudioWithMP4Box: <<>> for null, or <<bytes>>
    adts,         \* test_heaac_v2.js, parseADTS: the latest call's arguments and what it returned
    esds,         \* decode_mp4_complete.js, extractAudioFromMP4: the esds parser's locals when it stopped
    walk,         \* decode_mp4_complete.js, MP4Parser: the findBoxPath call in progress, or how it ended
    loop          \* test_heaac_v2.js, testHEAAC: the frame loop's locals and position

\* the decoder's state, and the state of the MP4 extraction script
heapVars == <<outRegion, kept>>
decoderVars == <<module, initialized, sampleRate, channels, pending, outstanding, last, heapVars>>
mp4Vars == <<audioTrack, audioConfig>>
labVars == <<adts, esds, walk, loop>>
vars == <<decoderVars, mp4Vars, labVars>>

\* what a decoder call, and what the extraction script, leaves alone
outsideDecoder == <<mp4Vars, labVars>>
outsideMp4 == <<decoderVars, labVars>>
outsideAdts == <<decoderVars, mp4Vars, esds, walk, loop>>
outsideEsds == <<decoderVars, mp4Vars, adts, walk, loop>>
outsideWalk == <<decoderVars, mp4Vars, adts, esds, loop>>
outsideLoop == <<decoderVars, mp4Vars, adts, esds, walk>>

----------------------------------------------------------------------------
(* Bounds of the model *)

\* at most this many configure calls are suspended at once
MaxPending == 2
\* calls that allocate are not started once this many regions are outstanding
MaxOutstanding == 2

----------------------------------------------------------------------------
(* JavaScript integer arithmetic *)

Pow2(n) == 2 ^ n

\* The operands of JavaScript's bitwise operators are 32-bit two's-complement
\* integers, which is also how JavaScript reads a WASM i32 result. Every integer
\* below is such a value, in -2^31 .. 2^31 - 1.
MinInt32 == (-2147483647) - 1

\* bits 30..0 of a, and bit 31
Low31(a) == IF a >= 0 THEN a ELSE (a + 2147483647) + 1
Bit31(a) == a < 0
WithBit31(low, set) == IF set THEN (low - 2147483647) - 1 ELSE low

ToUint8(x) == x % 256

RECURSIVE BitAndNat(_, _)
BitAndNat(a, b) ==
    IF a = 0 \/ b = 0 THEN 0
    ELSE (IF a % 2 = 1 /\ b % 2 = 1 THEN 1 ELSE 0) + 2 * BitAndNat(a \div 2, b \div 2)

RECURSIVE BitOrNat(_, _)
BitOrNat(a, b) ==
    IF a = 0 THEN b
    ELSE IF b = 0 THEN a
    ELSE (IF a % 2 = 1 \/ b % 2 = 1 THEN 1 ELSE 0) + 2 * BitOrNat(a \div 2, b \div 2)

\* a & b, a | b
And(a, b) == WithBit31(BitAndNat(Low31(a), Low31(b)), Bit31(a) /\ Bit31(b))
Or(a, b) == WithBit31(BitOrNat(Low31(a), Low31(b)), Bit31(a) \/ Bit31(b))

\* a << k: bits 31-k..0 of a move up by k, the rest fall off
Shl(a, k) ==
    IF k = 0 THEN a
    ELSE WithBit31(IF k = 31 THEN 0 ELSE (Low31(a) % Pow2(31 - k)) * Pow2(k),
                   (Low31(a) \div Pow2(31 - k)) % 2 = 1)

\* a >> k (sign-propagating) and a >>> k (zero-fill), for 1 <= k <= 31
Shr(a, k) == a \div Pow2(k)
UShr(a, k) == (Low31(a) \div Pow2(k)) + (IF Bit31(a) THEN Pow2(31 - k) ELSE 0)

Min(a, b) == IF a <= b THEN a ELSE b

\* a / b on Numbers: an integer when exact, otherwise the non-integer quotient
\* (kept as the pair), Infinity or NaN
JSDiv(a, b) ==
    IF b = 0 THEN (IF a = 0 THEN <<"NaN">> ELSE <<"Infinity">>)
    ELSE IF a % b = 0 THEN <<"int", a \div b>>
    ELSE <<"frac", a, b>>

\* Buffer/Uint8Array.slice(start) and slice(start, end)
SliceFrom(s, start) == SubSeq(s, Min(start, Len(s)) + 1, Len(s))
Slice(s, start, end) == SubSeq(s, Min(start, Len(s)) + 1, Min(end, Len(s)))

----------------------------------------------------------------------------
(* The engine heap: _malloc, HEAPU8.set, HEAPU8.fill *)

\* a fresh region holds whatever the heap held before
GarbageBytes == {0, 170}
Malloc(n, g) == [i \in 1..n |-> g]

\* HEAPU8.set(src, ptr + off) within a region starting at ptr
HeapSet(region, src, off) ==
    [i \in 1..Len(region) |->
        IF off < i /\ i <= off + Len(src) THEN src[i - off] ELSE region[i]]

\* HEAPU8.fill(v, ptr + start, ptr + end)
HeapFill(region, v, start, end) ==
    [i \in 1..Len(region) |-> IF start < i /\ i <= end THEN v ELSE region[i]]

----------------------------------------------------------------------------
(* faad2_node_decoder.js: tables and helpers *)

SAMPLE_RATE ==
    (1 :> 8000) @@ (2 :> 16000) @@ (3 :> 22050) @@ (4 :> 32000) @@ (5 :> 44100) @@
    (6 :> 48000) @@ (7 :> 64000) @@ (8 :> 88200) @@ (9 :> 96000)

\* (mutant) the table read one entry off
SampleRateOf_OffByOne(samplerateIndex) ==
    IF samplerateIndex + 1 \in DOMAIN SAMPLE_RATE THEN SAMPLE_RATE[samplerateIndex + 1] ELSE 0

\* SAMPLE_RATE[samplerateIndex] || 0
SampleRateOf(samplerateIndex) ==
    IF samplerateIndex \in DOMAIN SAMPLE_RATE THEN SAMPLE_RATE[samplerateIndex] ELSE 0

\* (aacData[0] << 4) | (aacData[1] >> 4)
Syncword(aacData) == Or(Shl(aacData[1], 4), Shr(aacData[2], 4))

\* (mutant) the channel configuration is taken from byte 3 alone
_extractASC_ChannelLowBits(aacData) ==
    IF Len(aacData) >= 7 /\ Syncword(aacData) = 4095
    THEN LET profile == And(Shr(aacData[3], 6), 3) + 1
             sampleRateIndex == And(Shr(aacData[3], 2), 15)
             channelConfig == And(Shr(aacData[4], 6), 3)
         IN  << << ToUint8(Or(Shl(profile, 3), Shr(sampleRateIndex, 1))),
                   ToUint8(Or(Shl(And(sampleRateIndex, 1), 7), Shl(channelConfig, 3))) >> >>
    ELSE IF Len(aacData) >= 2 THEN << Slice(aacData, 0, 2) >>
    ELSE << >>

\* _extractASC(aacData): <<asc>>, or <<>> when it throws
_extractASC(aacData) ==
    IF Len(aacData) >= 7 /\ Syncword(aacData) = 4095
    THEN LET profile == And(Shr(aacData[3], 6), 3) + 1
             sampleRateIndex == And(Shr(aacData[3], 2), 15)
             channelConfig == Or(Shl(And(aacData[3], 1), 2), And(Shr(aacData[4], 6), 3))
         IN  << << ToUint8(Or(Shl(profile, 3), Shr(sampleRateIndex, 1))),
                   ToUint8(Or(Shl(And(sampleRateIndex, 1), 7), Shl(channelConfig, 3))) >> >>
    ELSE IF Len(aacData) >= 2 THEN << Slice(aacData, 0, 2) >>
    ELSE << >>

\* (mutant) the CRC of a protected header is not skipped
_stripADTS_NoCrc(aacData) ==
    IF Len(aacData) >= 7 /\ Syncword(aacData) = 4095
    THEN SliceFrom(aacData, 7)
    ELSE aacData

\* _stripADTS(aacData)
_stripADTS(aacData) ==
    IF Len(aacData) >= 7 /\ Syncword(aacData) = 4095
    THEN LET protectionAbsent == And(aacData[2], 1)
             headerSize == IF protectionAbsent # 0 THEN 7 ELSE 9
         IN  SliceFrom(aacData, headerSize)
    ELSE aacData

\* decode's constants
pad == 64
maxFrames == 2048 * 2
maxChannels == 2
maxSamples == maxFrames * maxChannels
BYTES_PER_ELEMENT == 4
outputSize == maxSamples * BYTES_PER_ELEMENT

\* (mutant) only the module is checked
NotReady_ModuleOnly(m, init) == m # "loaded"

\* decode's guard: !this.module || !this.initialized
NotReady(m, init) == m # "loaded" \/ ~init

\* (mutant) the padding is allocated but not zeroed
InputRegion_NoFill(rawAAC, g) == HeapSet(Malloc(Len(rawAAC) + pad, g), rawAAC, 0)

\* the input region as _decode_frame finds it: malloc, set, fill
InputRegion(rawAAC, g) ==
    LET inputLength == Len(rawAAC)
        fresh == Malloc(inputLength + pad, g)
        copied == HeapSet(fresh, rawAAC, 0)
    IN  HeapFill(copied, 0, inputLength, inputLength + pad)

\* (mutant) a zero status is taken for a frame
NoOutput_NegativeOnly(packed) == packed < 0

\* if (packed <= 0): no frame was produced
NoOutput(packed) == packed <= 0

\* the fields of the packed status word
StatusIndex(packed) == And(UShr(packed, 28), 15)
StatusChannels(packed) == And(UShr(packed, 24), 15)
StatusSamples(packed) == And(packed, 16777215)

\* new Float32Array(HEAPU8.buffer, outPtr, samples): `length` elements, of which
\* `beyond` lie past the end of the region _malloc(outputSize) returned
View(regionBytes, samples) ==
    LET capacity == regionBytes \div BYTES_PER_ELEMENT
    IN  [length |-> samples,
         beyond |-> IF samples > capacity THEN samples - capacity ELSE 0]

\* The constructor throws a RangeError when the view ends past the end of the
\* heap. A view inside the region cannot; one that leaves the region may or may
\* not, depending on where the region lies and how large the heap has grown.
ViewOutcomes(regionBytes, samples) ==
    IF View(regionBytes, samples).beyond = 0 THEN {"ok"} ELSE {"ok", "RangeError"}

\* the object decode returns for a positive status word
DecodeResult(packed) ==
    LET samplerateIndex == StatusIndex(packed)
        numChannels == StatusChannels(packed)
        samples == StatusSamples(packed)
    IN  [pcm |-> View(outputSize, samples),
         sampleRate |-> SampleRateOf(samplerateIndex),
         channels |-> numChannels,
         samplesPerChannel |-> JSDiv(samples, numChannels)]

\* (mutant) the pcm handed out is the view over the output region
SliceOfView_Shared(samples) == [samples |-> samples, storage |-> "engine"]

\* new Float32Array(HEAPU8.buffer, outPtr, samples).slice(): a copy of the
\* samples in storage of its own
SliceOfView(samples) == [samples |-> samples, storage |-> "own"]

\* the samples a pcm holds, given what the output region holds
SamplesOf(pcm, region) == IF pcm.storage = "engine" THEN region ELSE pcm.samples

\* (mutant) the result of _init_decoder is not checked
InitFailed_Never(result) == FALSE

\* if (result < 0) throw
InitFailed(result) == result < 0

\* the record configure hands to _init_decoder: <<asc>>, or <<>> when
\* _extractASC throws
ConfigAsc(ascOrFirstFrame, autoDetect) ==
    IF autoDetect /\ Len(ascOrFirstFrame) > 2
    THEN _extractASC(ascOrFirstFrame)
    ELSE << ascOrFirstFrame >>

\* the region _init_decoder finds: malloc, set
AscRegion(asc, g) == HeapSet(Malloc(Len(asc), g), asc, 0)

----------------------------------------------------------------------------
(* The engine as an environment *)

\* an engine call either traps (the WASM call throws) or returns a 32-bit word,
\* which JavaScript reads as a signed integer; by the time _decode_frame
\* returns it has written samples to the output region, which the model
\* tells apart by one number
Trap == [kind |-> "trap", word |-> 0, wrote |-> 0]
Writes(w, samples) == [kind |-> "ret", word |-> w, wrote |-> samples]
Returns(w) == Writes(w, 0)

\* the status word with the given fields, as JavaScript reads it
Pack(index, chans, samples) ==
    WithBit31((index % 8) * Pow2(28) + chans * Pow2(24) + samples, index >= 8)

----------------------------------------------------------------------------
(* What a call leaves behind for inspection *)

NoCall == << >>
EngineCall(fn, mem, len, outSize, e) ==
    << [fn |-> fn, mem |-> mem, len |-> len, outSize |-> outSize,
        ret |-> IF e.kind = "trap" THEN << >> ELSE << e.word >>] >>

Did(op, input, auto, call, outcome, result, steps) ==
    [op |-> op, input |-> input, auto |-> auto, call |-> call,
     outcome |-> outcome, result |-> result, steps |-> steps]

----------------------------------------------------------------------------
(* State machine *)

\* parseADTS and the esds parser before their first call
NotParsed == [called |-> FALSE, data |-> << >>, offset |-> 0, header |-> << >>]
NoEsds == [called |-> FALSE, payload |-> << >>, outcome |-> "none", audioConfig |-> << >>,
           size |-> 0, sizeAt |-> 0, offset |-> 0]

\* no findBoxPath call yet, and the frame loop not entered
NoWalk == [status |-> "none", buffer |-> << >>, types |-> << >>, current |-> << >>, rest |-> << >>,
           offset |-> 0, box |-> << >>]
NoLoop == [status |-> "none", aacData |-> << >>, offset |-> 0, frameCount |-> 0, frameInfo |-> << >>]

\* let audioTrack = null
NoTrack == [codec |-> << >>, sample_rate |-> 0, channel_count |-> 0, codec_config |-> << >>, found |-> FALSE]

Init ==
    /\ module = "null"
    /\ initialized = FALSE
    /\ sampleRate = 0
    /\ channels = 0
    /\ pending = << >>
    /\ outstanding = 0
    /\ last = Did("new", << >>, FALSE, NoCall, "ok", << >>, << >>)
    /\ outRegion = 0
    /\ kept = << >>
    /\ audioTrack = NoTrack
    /\ audioConfig = << >>
    /\ adts = NotParsed
    /\ esds = NoEsds
    /\ walk = NoWalk
    /\ loop = NoLoop

\* _init(): the module is loaded and this.ready resolves
ModuleLoads ==
    /\ UNCHANGED outsideDecoder
    /\ UNCHANGED heapVars
    /\ module = "null"
    /\ module' = "loaded"
    /\ last' = Did("_init", << >>, FALSE, NoCall, "ok", << >>, << >>)
    /\ UNCHANGED <<initialized, sampleRate, channels, pending, outstanding>>

\* _init(): reading or instantiating the module fails and this.ready rejects
ModuleFails ==
    /\ UNCHANGED outsideDecoder
    /\ UNCHANGED heapVars
    /\ module = "null"
    /\ module' = "failed"
    /\ last' = Did("_init", << >>, FALSE, NoCall, "throw:LoadFailed", << >>, << >>)
    /\ UNCHANGED <<initialized, sampleRate, channels, pending, outstanding>>

\* configure(ascOrFirstFrame, autoDetect) up to `await this.ready`
ConfigureCall(ascOrFirstFrame, autoDetect) ==
    /\ UNCHANGED outsideDecoder
    /\ UNCHANGED heapVars
    /\ Len(pending) < MaxPending
    /\ pending' = Append(pending, [input |-> ascOrFirstFrame, auto |-> autoDetect])
    /\ last' = Did("configure.await", ascOrFirstFrame, autoDetect, NoCall, "suspended", << >>, << >>)
    /\ UNCHANGED <<module, initialized, sampleRate, channels, outstanding>>

\* configure from `await this.ready` to its end, for the oldest suspended call
ConfigureResume(g, e) ==
    /\ UNCHANGED outsideDecoder
    /\ UNCHANGED heapVars
    /\ pending # << >>
    /\ module # "null"
    /\ pending' = Tail(pending)
    /\ LET c == Head(pending)
           got == ConfigAsc(c.input, c.auto)
       IN  IF module = "failed"
           THEN /\ last' = Did("configure", c.input, c.auto, NoCall, "throw:LoadFailed", << >>, << >>)
                /\ UNCHANGED <<module, initialized, sampleRate, channels, outstanding>>
           ELSE IF got = << >>
           THEN /\ last' = Did("configure", c.input, c.auto, NoCall, "throw:NoASC", << >>, << >>)
                /\ UNCHANGED <<module, initialized, sampleRate, channels, outstanding>>
           ELSE LET asc == got[1]
                    call == EngineCall("_init_decoder", AscRegion(asc, g), Len(asc), 0, e)
                IN  /\ outstanding < MaxOutstanding
                    /\ IF e.kind = "trap"
                       THEN /\ outstanding' = outstanding + 1
                            /\ last' = Did("configure", c.input, c.auto, call, "throw:EngineTrap", << >>,
                                           <<"malloc(asc)", "set(asc)", "_init_decoder">>)
                            /\ UNCHANGED <<module, initialized, sampleRate, channels>>
                       ELSE IF InitFailed(e.word)
                       THEN /\ last' = Did("configure", c.input, c.auto, call, "throw:InitFailed", << >>,
                                           <<"malloc(asc)", "set(asc)", "_init_decoder", "free(asc)">>)
                            /\ UNCHANGED <<module, initialized, sampleRate, channels, outstanding>>
                       ELSE /\ initialized' = TRUE
                            /\ last' = Did("configure", c.input, c.auto, call, "ok", << >>,
                                           <<"malloc(asc)", "set(asc)", "_init_decoder", "free(asc)">>)
                            /\ UNCHANGED <<module, sampleRate, channels, outstanding>>

\* the body of decode(frameData): what the call does to the decoder
DecodeCall(frameData, g, e) ==
    /\ IF NotReady(module, initialized)
       THEN /\ last' = Did("decode", frameData, FALSE, NoCall, "throw:NotInitialized", << >>, << >>)
            /\ UNCHANGED <<module, initialized, sampleRate, channels, pending, outstanding, heapVars>>
       ELSE LET rawAAC == _stripADTS(frameData)
                call == EngineCall("_decode_frame", InputRegion(rawAAC, g), Len(rawAAC), outputSize, e)
                packed == e.word
                upToCall == <<"malloc(in)", "set(in)", "fill(pad)", "malloc(out)", "_decode_frame">>
            IN  /\ outstanding < MaxOutstanding
                /\ UNCHANGED <<module, initialized, pending>>
                /\ IF e.kind = "trap"
                   THEN /\ outstanding' = outstanding + 2
                        /\ last' = Did("decode", frameData, FALSE, call, "throw:EngineTrap", << >>, upToCall)
                        /\ UNCHANGED <<sampleRate, channels, heapVars>>
                   ELSE IF NoOutput(packed)
                   THEN /\ last' = Did("decode", frameData, FALSE, call, "null", << >>,
                                       upToCall \o <<"free(in)", "free(out)">>)
                        /\ UNCHANGED <<sampleRate, channels, outstanding, heapVars>>
                   ELSE LET res == DecodeResult(packed)
                        IN  /\ sampleRate' = res.sampleRate
                            /\ channels' = res.channels
                            /\ outRegion' = e.wrote
                            /\ \E v \in ViewOutcomes(outputSize, StatusSamples(packed)) :
                                 IF v = "RangeError"
                                 THEN /\ outstanding' = outstanding + 1
                                      /\ last' = Did("decode", frameData, FALSE, call, "throw:RangeError", << >>,
                                                     upToCall \o <<"free(in)", "view(out)">>)
                                      /\ UNCHANGED kept
                                 ELSE /\ last' = Did("decode", frameData, FALSE, call, "result", << res >>,
                                                     upToCall \o <<"free(in)", "view(out)", "slice", "free(out)">>)
                                      /\ kept' = IF kept = << >> THEN << SliceOfView(e.wrote) >> ELSE kept
                                      /\ UNCHANGED outstanding

\* decode(frameData), called on its own
Decode(frameData, g, e) ==
    /\ UNCHANGED outsideDecoder
    /\ DecodeCall(frameData, g, e)

\* reset()
Reset ==
    /\ UNCHANGED outsideDecoder
    /\ UNCHANGED heapVars
    /\ initialized' = FALSE
    /\ sampleRate' = 0
    /\ channels' = 0
    /\ last' = Did("reset", << >>, FALSE, NoCall, "ok", << >>, << >>)
    /\ UNCHANGED <<module, pending, outstanding>>

\* destroy(): this.reset()
Destroy ==
    /\ UNCHANGED outsideDecoder
    /\ UNCHANGED heapVars
    /\ initialized' = FALSE
    /\ sampleRate' = 0
    /\ channels' = 0
    /\ last' = Did("destroy", << >>, FALSE, NoCall, "ok", << >>, << >>)
    /\ UNCHANGED <<module, pending, outstanding>>

----------------------------------------------------------------------------
(* Inputs *)

\* an ADTS frame without CRC (7-byte header) and 2 payload bytes
FrameADTS7 == <<255, 241, 80, 128, 0, 31, 252, 33, 34>>
\* an ADTS frame with CRC (9-byte header) and 2 payload bytes
FrameADTS9 == <<255, 240, 80, 128, 1, 127, 252, 9, 9, 35, 36>>
\* a raw access unit
FrameRaw == <<33, 16, 4, 96, 140, 28>>

\* the frames and engine outcomes of the life-cycle specification
LifeFrames == {FrameADTS7, FrameRaw}
LifeDecodeOutcomes ==
    {Trap, Returns(0), Returns(-1), Returns(Pack(6, 2, 4660)), Writes(Pack(6, 2, 4660), 1),
     Returns(Pack(5, 1, 8193))}
LifeConfigs ==
    {[input |-> <<18, 16>>, auto |-> FALSE],
     [input |-> FrameADTS7, auto |-> TRUE],
     [input |-> <<43, 146, 8, 0>>, auto |-> TRUE]}
LifeInitOutcomes == {Trap, Returns(-1), Returns(0), Returns(1)}

Next ==
    \/ ModuleLoads
    \/ ModuleFails
    \/ \E c \in LifeConfigs : ConfigureCall(c.input, c.auto)
    \/ \E g \in GarbageBytes, e \in LifeInitOutcomes : ConfigureResume(g, e)
    \/ \E f \in LifeFrames, g \in GarbageBytes, e \in LifeDecodeOutcomes : Decode(f, g, e)
    \/ Reset
    \/ Destroy

Spec == Init /\ [][Next]_vars

----------------------------------------------------------------------------
(* The decode path over a wide range of frames and status words, from the   *)
(* state a successful configure([0x12, 0x10], false) leaves.                *)

ConfiguredCall == EngineCall("_init_decoder", <<18, 16>>, 2, 0, Returns(0))
ConfiguredLast ==
    Did("configure", <<18, 16>>, FALSE, ConfiguredCall, "ok", << >>,
        <<"malloc(asc)", "set(asc)", "_init_decoder", "free(asc)">>)

InitConfigured ==
    /\ module = "loaded"
    /\ initialized = TRUE
    /\ sampleRate = 0
    /\ channels = 0
    /\ pending = << >>
    /\ outstanding = 0
    /\ last = ConfiguredLast
    /\ outRegion = 0
    /\ kept = << >>
    /\ audioTrack = NoTrack
    /\ audioConfig = << >>
    /\ adts = NotParsed
    /\ esds = NoEsds
    /\ walk = NoWalk
    /\ loop = NoLoop

WideFrames ==
    {FrameADTS7, FrameADTS9, FrameRaw,
     << >>,
     <<255, 241, 80, 128, 0, 31, 252>>,
     <<255, 240, 80, 128, 1, 31, 252, 9>>,
     <<255, 241, 80, 128, 0, 31>>,
     <<255, 225, 80, 128, 0, 31, 252, 33>>,
     <<127, 241, 80, 128, 0, 31, 252, 33>>,
     <<255, 255, 255, 255, 255, 255, 255, 255, 255, 255>>,
     <<255, 246, 80, 128, 1, 127, 252, 9, 9, 37>>}

SampleCounts == {0, 1, 2, 3, 4660, 8192, 8193, 16777215}

WideWords ==
    {Pack(i, 2, 4660) : i \in 0..15}
        \cup {Pack(6, c, n) : c \in 0..15, n \in SampleCounts}
        \cup {0, 1, -1, 2147483647, MinInt32}

DecodeCases ==
    {[frame |-> f, engine |-> e] :
        f \in WideFrames, e \in {Trap, Returns(0), Returns(Pack(6, 2, 4660))}}
        \cup {[frame |-> FrameRaw, engine |-> Returns(w)] : w \in WideWords}

NextDecode ==
    \E c \in DecodeCases, g \in GarbageBytes : Decode(c.frame, g, c.engine)

SpecDecode == InitConfigured /\ [][NextDecode]_vars

----------------------------------------------------------------------------
(* Properties of the decoder's life cycle (Spec) *)

\* the latest call was a decode that reached _decode_frame / a configure that
\* reached _init_decoder, and the engine returned a word
ReachedEngine(l, op) == l.op = op /\ l.call # NoCall
EngineReturned(l, op) == ReachedEngine(l, op) /\ l.call[1].ret # << >>

\* C1: every region a configure or decode call allocates is released by the
\* time the call returns or throws, whatever the engine does: no region is
\* outstanding between calls.
C1_NoRegionOutstandingBetweenCalls == outstanding = 0

\* C2: a decode call on an unconfigured decoder throws the not-initialized
\* error, allocates nothing and does not invoke the engine.
C2_UnconfiguredDecodeFailsFast ==
    [][(last'.op = "decode" /\ ~initialized)
        => /\ last'.outcome = "throw:NotInitialized"
           /\ last'.call = NoCall
           /\ last'.steps = << >>
           /\ outstanding' = outstanding]_vars

C2_Witness ==
    /\ module = "loaded"
    /\ ~initialized
    /\ last.op = "decode"
    /\ last.outcome = "throw:NotInitialized"

\* C3: the decoder becomes configured only by a configure call whose
\* _init_decoder returned a non-negative result, stays configured across decode
\* calls whatever their outcome, and becomes unconfigured only by reset() or
\* destroy().
C3_ConfiguredLifeCycle ==
    [][/\ (~initialized /\ initialized')
            => (EngineReturned(last', "configure") /\ last'.call[1].ret[1] >= 0)
       /\ (initialized /\ last'.op = "decode") => initialized'
       /\ (initialized /\ ~initialized') => last'.op \in {"reset", "destroy"}]_vars

C3_Witness ==
    /\ initialized
    /\ last.op = "decode"
    /\ last.outcome = "throw:EngineTrap"

\* C4: on a configured decoder, a decode call whose engine status is
\* non-positive returns null and leaves no more regions outstanding than it
\* found, so a sequence of such calls starting from none outstanding ends with
\* none outstanding.
C4_NoOutputReleasesEverything ==
    [][(initialized /\ EngineReturned(last', "decode") /\ last'.call[1].ret[1] <= 0)
        => /\ last'.outcome = "null"
           /\ last'.result = << >>
           /\ outstanding' = outstanding]_vars

C4_Witness ==
    /\ EngineReturned(last, "decode")
    /\ last.call[1].ret[1] = 0
    /\ last.outcome = "null"
    /\ outstanding = 0

----------------------------------------------------------------------------
(* Properties of the decode path (SpecDecode) *)

\* C5: for every positive status word decode returns an object whose pcm has
\* exactly totalSamples (bits 23-0) elements, whose channels is bits 27-24 and
\* whose samplesPerChannel is totalSamples divided by channels.
C5_PositiveStatusYieldsResult ==
    (EngineReturned(last, "decode") /\ last.call[1].ret[1] > 0)
        => LET w == last.call[1].ret[1]
               chans == (w \div 16777216) % 16
               total == w % 16777216
           IN  /\ last.outcome = "result"
               /\ Len(last.result) = 1
               /\ last.result[1].pcm.length = total
               /\ last.result[1].channels = chans
               /\ (chans # 0 /\ total % chans = 0)
                    => last.result[1].samplesPerChannel = <<"int", total \div chans>>

\* C6: a positive status word whose channel count is outside 1..15 or whose
\* total sample count is not a multiple of the channel count makes decode fail
\* with CorruptEngineOutput instead of returning a result.
C6_CorruptStatusIsRejected ==
    (EngineReturned(last, "decode") /\ last.call[1].ret[1] > 0)
        => LET w == last.call[1].ret[1]
               chans == (w \div 16777216) % 16
               total == w % 16777216
           IN  (chans \notin 1..15 \/ total % chans # 0)
                    => (last.outcome = "throw:CorruptEngineOutput" /\ last.result = << >>)

\* C7: the sample rate decode reports is the table {1: 8000, 2: 16000, 3: 22050,
\* 4: 32000, 5: 44100, 6: 48000, 7: 64000, 8: 88200, 9: 96000} at the status
\* word's index (bits 31-28), and 0 for an index outside 1..9; status
\* 0x62001234 gives 48000 Hz, 2 channels, 0x1234 samples.
C7_ReportedSampleRate ==
    (last.op = "decode" /\ last.outcome = "result")
        => LET w == last.call[1].ret[1]
               index == w \div 268435456
               r == last.result[1]
               hz == CASE index = 1 -> 8000  [] index = 2 -> 16000 [] index = 3 -> 22050
                       [] index = 4 -> 32000 [] index = 5 -> 44100 [] index = 6 -> 48000
                       [] index = 7 -> 64000 [] index = 8 -> 88200 [] index = 9 -> 96000
                       [] OTHER -> 0
           IN  /\ r.sampleRate = hz
               /\ sampleRate = hz
               /\ w = 1644171828
                    => (r.sampleRate = 48000 /\ r.channels = 2 /\ r.pcm.length = 4660)

C7_Witness ==
    /\ last.op = "decode"
    /\ last.outcome = "result"
    /\ last.call[1].ret[1] = 1644171828
    /\ last.result[1].sampleRate = 48000

\* C8: the bytes handed to the engine are frameData without its first 7 bytes
\* (protection-absent bit 1) or 9 bytes (bit 0) when frameData has at least 7
\* bytes and starts with the 12 bits 0xFFF, and frameData itself otherwise.
C8_EngineGetsStrippedFrame ==
    ReachedEngine(last, "decode")
        => LET f == last.input
               c == last.call[1]
               framed == Len(f) >= 7 /\ f[1] = 255 /\ f[2] \div 16 = 15
               header == IF f[2] % 2 = 1 THEN 7 ELSE 9
               expect == IF framed THEN [i \in 1..(IF Len(f) > header THEN Len(f) - header ELSE 0)
                                            |-> f[header + i]]
                         ELSE f
           IN  /\ c.len = Len(expect)
               /\ c.len <= Len(c.mem)
               /\ SubSeq(c.mem, 1, c.len) = expect

C8_Witness ==
    /\ ReachedEngine(last, "decode")
    /\ last.input = FrameADTS9
    /\ last.call[1].len = 2
    /\ SubSeq(last.call[1].mem, 1, 2) = <<35, 36>>

\* C9: for every decode call that reaches the engine the input region is
\* len + 64 bytes, len being the length of the stripped frame; its first len
\* bytes are the frame's, its last 64 bytes are zero, and the length passed to
\* the engine is len.
C9_InputRegionIsPadded ==
    ReachedEngine(last, "decode")
        => LET raw == _stripADTS(last.input)
               len == Len(raw)
               c == last.call[1]
           IN  /\ Len(c.mem) = len + 64
               /\ \A i \in 1..len : c.mem[i] = raw[i]
               /\ \A i \in (len + 1)..(len + 64) : c.mem[i] = 0
               /\ c.len = len

C9_Witness ==
    /\ ReachedEngine(last, "decode")
    /\ last.input = FrameADTS7
    /\ Len(last.call[1].mem) = 66
    /\ last.call[1].len = 2

----------------------------------------------------------------------------
(* lab/decode_mp4_complete.js: the AudioSpecificConfig made from a codec    *)
(* string. A string is the sequence of its characters.                     *)

\* a Number that is an integer, or NaN
Number(n) == <<"int", n>>
NaN == <<"NaN">>

\* ToInt32 of such a Number, as the bitwise operators apply it
ToInt32(x) == IF x = NaN THEN 0 ELSE x[2]

DigitValue ==
    ("0" :> 0) @@ ("1" :> 1) @@ ("2" :> 2) @@ ("3" :> 3) @@ ("4" :> 4) @@
    ("5" :> 5) @@ ("6" :> 6) @@ ("7" :> 7) @@ ("8" :> 8) @@ ("9" :> 9)

\* the value of the longest prefix of decimal digits of str, after `acc`
RECURSIVE DigitsValue(_, _)
DigitsValue(str, acc) ==
    IF str = << >> \/ Head(str) \notin DOMAIN DigitValue THEN acc
    ELSE DigitsValue(Tail(str), 10 * acc + DigitValue[Head(str)])

\* parseInt(str, 10): an optional sign and the leading digits; NaN without digits
parseInt(str) ==
    LET negative == str # << >> /\ Head(str) = "-"
        signed == str # << >> /\ Head(str) \in {"-", "+"}
        digits == IF signed THEN Tail(str) ELSE str
    IN  IF digits = << >> \/ Head(digits) \notin DOMAIN DigitValue THEN NaN
        ELSE Number(IF negative THEN 0 - DigitsValue(digits, 0) ELSE DigitsValue(digits, 0))

\* str.split(sep)
RECURSIVE split(_, _)
split(str, sep) ==
    IF \E i \in 1..Len(str) : str[i] = sep
    THEN LET i == CHOOSE k \in 1..Len(str) :
                    str[k] = sep /\ \A j \in 1..(k - 1) : str[j] # sep
         IN  << SubSeq(str, 1, i - 1) >> \o split(SubSeq(str, i + 1, Len(str)), sep)
    ELSE << str >>

sampleRates ==
    <<96000, 88200, 64000, 48000, 44100, 32000, 24000, 22050, 16000, 12000, 11025, 8000, 7350>>

\* sampleRates.indexOf(rate), rate a pair <<r, 1>> (r Hz) or <<r, 2>> (r / 2 Hz)
indexOf(rate) ==
    IF \E i \in 1..Len(sampleRates) : sampleRates[i] * rate[2] = rate[1]
    THEN (CHOOSE i \in 1..Len(sampleRates) : sampleRates[i] * rate[2] = rate[1]) - 1
    ELSE -1

\* (mutant) a rate the table lacks gets the index of the nearest entry
SampleRateIndex_Nearest(rate) ==
    IF indexOf(rate) # -1 THEN indexOf(rate)
    ELSE LET dist(i) == IF sampleRates[i] * rate[2] >= rate[1]
                        THEN sampleRates[i] * rate[2] - rate[1]
                        ELSE rate[1] - sampleRates[i] * rate[2]
         IN  (CHOOSE i \in 1..Len(sampleRates) :
                \A j \in 1..Len(sampleRates) : dist(i) <= dist(j)) - 1

\* let i = sampleRates.indexOf(rate); if (i === -1) i = 15
SampleRateIndex(rate) == IF indexOf(rate) = -1 THEN 15 ELSE indexOf(rate)

\* the HE-AAC branch: a 4-byte record
HeAacConfig(objectType, hz, chans) ==
    LET sampleRateIndex == SampleRateIndex(<<hz, 1>>)
        coreSampleRateIndex == SampleRateIndex(<<hz, 2>>)
        ot == ToInt32(objectType)
    IN  << ToUint8(Or(Shl(ot, 3), Shr(coreSampleRateIndex, 1))),
           ToUint8(Or(Or(Shl(And(coreSampleRateIndex, 1), 7), Shl(chans, 3)), 4)),
           86,
           ToUint8(Or(229, Shl(sampleRateIndex, 3))) >>

\* the other branch: a 2-byte record
PlainConfig(objectType, hz, chans) ==
    LET sampleRateIndex == SampleRateIndex(<<hz, 1>>)
        ot == ToInt32(objectType)
    IN  << ToUint8(Or(Shl(ot, 3), Shr(sampleRateIndex, 1))),
           ToUint8(Or(Shl(And(sampleRateIndex, 1), 7), Shl(chans, 3))) >>

Chars_mp4a == <<"m", "p", "4", "a">>
Chars_40 == <<"4", "0">>

\* audioConfig after onReady. track.codec_config stands for whichever of
\* track.codec_config, track.audio.decoder_config and the esds entry the file
\* carries (<<>> when it carries none); without one, and with a codec string,
\* the record is made from the codec string.
CodecConfig(track) ==
    IF track.codec_config # << >> \/ track.codec = << >> THEN track.codec_config
    ELSE LET codecParts == split(track.codec, ".")
         IN  IF Len(codecParts) >= 3 /\ codecParts[1] = Chars_mp4a /\ codecParts[2] = Chars_40
             THEN LET objectType == parseInt(codecParts[3])
                  IN  IF objectType = Number(5)
                      THEN << HeAacConfig(objectType, track.sample_rate, track.channel_count) >>
                      ELSE << PlainConfig(objectType, track.sample_rate, track.channel_count) >>
             ELSE << >>

\* mp4boxfile.onReady, for a file with one audio track
OnReady(track) ==
    /\ audioTrack' = track
    /\ audioConfig' = CodecConfig(track)
    /\ UNCHANGED outsideMp4

\* Inputs
Mp4a(suffix) == Chars_mp4a \o <<".">> \o Chars_40 \o <<".">> \o suffix
Codecs ==
    {Mp4a(<<"2">>), Mp4a(<<"5">>), Mp4a(<<"1">>), Mp4a(<<"4">>), Mp4a(<<"2", "9">>),
     Mp4a(<<"0", "2">>), Mp4a(<<"4", "2">>), Mp4a(<<"x">>), Mp4a(<< >>),
     Chars_mp4a \o <<".">> \o Chars_40,
     Chars_mp4a \o <<".", "6", "b">>,
     <<"m", "p", "4", "a", ".", "4", "1", ".", "2">>,
     <<"o", "p", "u", "s">>,
     << >>}
TrackRates == {7350, 8000, 11025, 22050, 24000, 44000, 44100, 48000, 96000, 100000}
TrackChannels == {0, 1, 2, 6, 8}
ContainerConfigs == {<< >>, << <<17, 144>> >>}
Tracks ==
    {[codec |-> c, sample_rate |-> r, channel_count |-> n, codec_config |-> k, found |-> TRUE] :
        c \in Codecs, r \in TrackRates, n \in TrackChannels, k \in ContainerConfigs}

NextSynth == \E t \in Tracks : OnReady(t)

SpecSynth == Init /\ [][NextSynth]_vars

----------------------------------------------------------------------------
(* Properties of the configuration synthesis (SpecSynth) *)

\* C10: for a codec string mp4a.40.<t> with t a plain object type (not 5), a
\* sample rate and a channel count c, the synthesized configuration is the two
\* bytes [(t << 3) | (i >> 1), ((i & 1) << 7) | (c << 3)], i being the index of
\* the sample rate in the canonical table by exact match and 15 when no entry
\* matches; mp4a.40.2 at 44100 Hz with 2 channels gives [0x12, 0x10].
C10_PlainCodecConfig ==
    LET canonical == <<96000, 88200, 64000, 48000, 44100, 32000, 24000, 22050,
                       16000, 12000, 11025, 8000, 7350>>
        r == audioTrack.sample_rate
        c == audioTrack.channel_count
        i == IF \E k \in 1..13 : canonical[k] = r
             THEN (CHOOSE k \in 1..13 : canonical[k] = r) - 1
             ELSE 15
        plain(t) == << BitOrNat(8 * t, i \div 2) % 256, BitOrNat(128 * (i % 2), 8 * c) % 256 >>
        typed(t, digits) == audioTrack.codec = Mp4a(digits) => audioConfig = << plain(t) >>
    IN  (audioTrack.found /\ audioTrack.codec_config = << >>)
            => /\ typed(1, <<"1">>)
               /\ typed(2, <<"2">>)
               /\ typed(2, <<"0", "2">>)
               /\ typed(4, <<"4">>)
               /\ typed(29, <<"2", "9">>)
               /\ typed(42, <<"4", "2">>)
               /\ (audioTrack.codec = Mp4a(<<"2">>) /\ r = 44100 /\ c = 2)
                    => audioConfig = << <<18, 16>> >>

C10_Witness ==
    /\ audioTrack.codec = Mp4a(<<"2">>)
    /\ audioTrack.codec_config = << >>
    /\ audioTrack.sample_rate = 44000
    /\ audioTrack.channel_count = 2
    /\ audioConfig = << <<23, 144>> >>

----------------------------------------------------------------------------
(* lab/decode_mp4_complete.js, testMP4NativeDecode: the record the script   *)
(* configures the decoder with, after the extraction.                       *)

\* finalASC: for the codec string 'mp4a.40.5' an AAC-LC record at the fixed
\* index 7, else the extracted audioConfig (<<>> when there is none)
finalASC(track, config) ==
    IF track.found /\ track.codec = Mp4a(<<"5">>)
    THEN LET sampleRateIndex == 7
         IN  << << ToUint8(Or(Shl(2, 3), Shr(sampleRateIndex, 1))),
                   ToUint8(Or(Shl(And(sampleRateIndex, 1), 7), Shl(track.channel_count, 3))) >> >>
    ELSE config

\* await extractAudioWithMP4Box(mp4File): the one extraction of a run of the
\* script, before it makes its decoder
ExtractAudio(track) ==
    /\ ~ audioTrack.found
    /\ pending = << >>
    /\ OnReady(track)

\* testMP4NativeDecode from the extraction's result to
\* decoder.configure(finalASC, false), for a file that has audio samples:
\* it returns early without an audioConfig, awaits decoder.ready, and throws
\* without a finalASC
NativeConfigure ==
    /\ audioTrack.found
    /\ audioConfig # << >>
    /\ module = "loaded"
    /\ pending = << >>
    /\ finalASC(audioTrack, audioConfig) # << >>
    /\ ConfigureCall(finalASC(audioTrack, audioConfig)[1], FALSE)

\* Inputs
NativeCodecs == {Mp4a(<<"5">>), Mp4a(<<"2">>), <<"o", "p", "u", "s">>}
NativeRates == {96000, 48000, 44100, 16000, 8000, 44000}
NativeChannels == {1, 2}
NativeTracks ==
    {[codec |-> c, sample_rate |-> r, channel_count |-> n, codec_config |-> k, found |-> TRUE] :
        c \in NativeCodecs, r \in NativeRates, n \in NativeChannels, k \in ContainerConfigs}

NextNative ==
    \/ ModuleLoads
    \/ ModuleFails
    \/ \E t \in NativeTracks : ExtractAudio(t)
    \/ NativeConfigure
    \/ \E g \in GarbageBytes, e \in LifeInitOutcomes : ConfigureResume(g, e)

SpecNative == Init /\ [][NextNative]_vars

----------------------------------------------------------------------------
(* Properties of the script's configuration (SpecNative) *)

\* C11: for the implicit high-efficiency codec mp4a.40.5 at a tabled sample
\* rate r whose half is tabled too, the record handed to the engine's
\* initialize is 2 bytes long, has object type 2 (AAC-LC) in its first 5 bits
\* and, in the next 4 bits, the canonical-table index of r / 2 (7 for 44100 Hz,
\* 6 for 48000 Hz), not the index of r.
C11_ImplicitHeAacCoreRate ==
    LET canonical == <<96000, 88200, 64000, 48000, 44100, 32000, 24000, 22050,
                       16000, 12000, 11025, 8000, 7350>>
        r == audioTrack.sample_rate
        tabled(x) == \E k \in 1..13 : canonical[k] = x
        halfIndex == (CHOOSE k \in 1..13 : 2 * canonical[k] = r) - 1
        record == last.call[1].mem
    IN  (/\ ReachedEngine(last, "configure")
         /\ audioTrack.codec = Mp4a(<<"5">>)
         /\ tabled(r)
         /\ \E k \in 1..13 : 2 * canonical[k] = r)
            => /\ last.call[1].len = 2
               /\ Len(record) = 2
               /\ record[1] \div 8 = 2
               /\ 2 * (record[1] % 8) + (record[2] \div 128) = halfIndex

\* the case of C11 at 44100 Hz, where the fixed index is the index of r / 2
C11_At44100 ==
    /\ ReachedEngine(last, "configure")
    /\ audioTrack.codec = Mp4a(<<"5">>)
    /\ audioTrack.sample_rate = 44100
    /\ audioTrack.channel_count = 2
    /\ last.call[1].mem = <<19, 144>>

----------------------------------------------------------------------------
(* Properties of the configuration synthesis, continued (SpecSynth) *)

\* the index the synthesis gives a sample rate: its place in the canonical
\* table, 15 when the table lacks it
CanonicalIndex(r) ==
    LET canonical == <<96000, 88200, 64000, 48000, 44100, 32000, 24000, 22050,
                       16000, 12000, 11025, 8000, 7350>>
    IN  IF \E k \in 1..13 : canonical[k] = r
        THEN (CHOOSE k \in 1..13 : canonical[k] = r) - 1
        ELSE 15

\* C12: the 4-byte record made for explicit high-efficiency signalling
\* (mp4a.40.5, channel count 0..15) holds the core object type AAC-LC (2) in
\* its first 5 bits, and its byte 3 tells output sampling-frequency indices
\* apart: a track that differs from this one only by a sample rate of another
\* index gets another byte 3.
C12_ExtendedRecordFields ==
    (/\ audioTrack.found
     /\ audioTrack.codec_config = << >>
     /\ audioTrack.codec = Mp4a(<<"5">>)
     /\ audioTrack.channel_count \in 0..15)
        => /\ audioConfig # << >>
           /\ Len(audioConfig[1]) = 4
           /\ audioConfig[1][1] \div 8 = 2
           /\ \A r2 \in TrackRates :
                CanonicalIndex(r2) # CanonicalIndex(audioTrack.sample_rate)
                    => CodecConfig([audioTrack EXCEPT !.sample_rate = r2])[1][4] # audioConfig[1][4]

\* the part of C12 about byte 3 alone
C12_Byte3TellsIndicesApart ==
    (/\ audioTrack.found
     /\ audioTrack.codec_config = << >>
     /\ audioTrack.codec = Mp4a(<<"5">>))
        => \A r2 \in TrackRates :
                CanonicalIndex(r2) # CanonicalIndex(audioTrack.sample_rate)
                    => CodecConfig([audioTrack EXCEPT !.sample_rate = r2])[1][4] # audioConfig[1][4]

\* C13: a codec string whose first two segments are not mp4a.40, or whose
\* object type is not one of 1 (Main), 2 (LC), 3 (SSR), 4 (LTP), 5 (SBR),
\* yields no configuration record.
C13_UnknownCodecYieldsNoRecord ==
    LET segments == split(audioTrack.codec, ".")
        known == {<<"1">>, <<"2">>, <<"3">>, <<"4">>, <<"5">>}
        recognized == /\ Len(segments) >= 3
                      /\ segments[1] = <<"m", "p", "4", "a">>
                      /\ segments[2] = <<"4", "0">>
                      /\ segments[3] \in known
    IN  (audioTrack.found /\ audioTrack.codec_config = << >> /\ ~ recognized)
            => audioConfig = << >>

\* the part of C13 about strings outside mp4a.40: no record is made for them
C13_OtherFamilyYieldsNoRecord ==
    LET segments == split(audioTrack.codec, ".")
    IN  (/\ audioTrack.found
         /\ audioTrack.codec_config = << >>
         /\ ~ (Len(segments) >= 3 /\ segments[1] = <<"m", "p", "4", "a">> /\ segments[2] = <<"4", "0">>))
            => audioConfig = << >>

----------------------------------------------------------------------------
(* configure over a wide range of inputs, each call awaited by its caller   *)
(* (await decoder.configure(...)), on a decoder whose module has loaded.    *)

InitLoaded ==
    /\ module = "loaded"
    /\ initialized = FALSE
    /\ sampleRate = 0
    /\ channels = 0
    /\ pending = << >>
    /\ outstanding = 0
    /\ last = Did("_init", << >>, FALSE, NoCall, "ok", << >>, << >>)
    /\ outRegion = 0
    /\ kept = << >>
    /\ audioTrack = NoTrack
    /\ audioConfig = << >>
    /\ adts = NotParsed
    /\ esds = NoEsds
    /\ walk = NoWalk
    /\ loop = NoLoop

\* await decoder.configure(ascOrFirstFrame, autoDetect)
AwaitedConfigure(ascOrFirstFrame, autoDetect) ==
    /\ pending = << >>
    /\ ConfigureCall(ascOrFirstFrame, autoDetect)

\* Inputs
\* an ADTS frame with the given profile, sampling-frequency index and channel
\* configuration; the private bit and the bits after the channel
\* configuration are set
AdtsFrame(profile, index, chan) ==
    <<255, 241, 64 * profile + 4 * index + 2 + (chan \div 4), 64 * (chan % 4) + 42, 0, 31, 252, 33>>

AdtsFrames == {AdtsFrame(p, i, c) : p \in 0..3, i \in 0..15, c \in 0..7}

WideConfigs ==
    {[input |-> f, auto |-> TRUE] : f \in AdtsFrames}
        \cup {[input |-> r, auto |-> a] :
                r \in {<< >>, <<18>>, <<18, 16>>, <<18, 16, 0>>, <<43, 146, 8, 0>>,
                       <<18, 16, 0, 0, 0>>, <<255, 241, 80, 128, 0, 31>>,
                       <<127, 241, 80, 128, 0, 31, 252, 33>>, FrameADTS9},
                a \in BOOLEAN}

NextConfigure ==
    \/ \E c \in WideConfigs : AwaitedConfigure(c.input, c.auto)
    \/ \E g \in GarbageBytes : ConfigureResume(g, Returns(0))

SpecConfigure == InitLoaded /\ [][NextConfigure]_vars

----------------------------------------------------------------------------
(* Properties of configure (SpecConfigure) *)

\* C14: the record configure passes to the engine's initialize is 2 or 4
\* bytes long; a record of any other length (0, 1, 3, more than 4 bytes) is
\* rejected before the engine is called.
C14_RecordLengthIsChecked ==
    ReachedEngine(last, "configure")
        => /\ last.call[1].len \in {2, 4}
           /\ Len(last.call[1].mem) = last.call[1].len

\* C15: when configure auto-detects an ADTS-framed input (at least 7 bytes,
\* first 12 bits 0xFFF), the record passed to the engine is the 2 bytes
\* holding, in 5, 4 and 4 bits, the header's 2-bit profile plus 1, its
\* sampling-frequency index and its channel configuration, with the low 3 bits
\* of byte 1 zero; reading the record by that layout gives the same three
\* fields, and writing them again gives the same 2 bytes.
C15_AdtsRecordRoundTrip ==
    LET d == last.input
        record == last.call[1].mem
        Encode(ot, sf, ch) == <<8 * ot + (sf \div 2), 128 * (sf % 2) + 8 * ch>>
        DecodeOt(b) == b[1] \div 8
        DecodeSf(b) == 2 * (b[1] % 8) + (b[2] \div 128)
        DecodeCh(b) == (b[2] \div 8) % 16
    IN  (/\ ReachedEngine(last, "configure")
         /\ last.auto
         /\ Len(d) >= 7
         /\ d[1] = 255
         /\ d[2] \div 16 = 15)
            => LET profile == d[3] \div 64
                   index == (d[3] \div 4) % 16
                   chan == 4 * (d[3] % 2) + (d[4] \div 64)
               IN  /\ last.call[1].len = 2
                   /\ record = Encode(profile + 1, index, chan)
                   /\ record[2] % 8 = 0
                   /\ DecodeOt(record) = profile + 1
                   /\ DecodeSf(record) = index
                   /\ DecodeCh(record) = chan
                   /\ Encode(DecodeOt(record), DecodeSf(record), DecodeCh(record)) = record

\* an auto-detected header with profile 3, index 11 and channel configuration 7
C15_Witness ==
    /\ ReachedEngine(last, "configure")
    /\ last.auto
    /\ last.input = AdtsFrame(3, 11, 7)
    /\ last.call[1].mem = <<37, 184>>
    /\ last.outcome = "ok"

----------------------------------------------------------------------------
(* lab/test_heaac_v2.js: parseADTS *)

\* data[i], i counted from 0
At(data, i) == data[i + 1]

\* a value that is undefined
Undefined == <<"undefined">>

\* (mutant) a header that ends the data is taken for too short
AdtsTooShort_NeedsEight(data, offset) == offset + 7 >= Len(data)

\* offset + 7 > data.length
AdtsTooShort(data, offset) == offset + 7 > Len(data)

\* (mutant) the top bit of the frame length is dropped
frameLength_TwelveBits(data, offset) ==
    Or(Or(Shl(And(At(data, offset + 3), 1), 11), Shl(At(data, offset + 4), 3)),
       And(Shr(At(data, offset + 5), 5), 7))

frameLength(data, offset) ==
    Or(Or(Shl(And(At(data, offset + 3), 3), 11), Shl(At(data, offset + 4), 3)),
       And(Shr(At(data, offset + 5), 5), 7))

\* protectionAbsent ? 7 : 9
headerSize(protectionAbsent) == IF protectionAbsent # 0 THEN 7 ELSE 9

profiles == <<"", "AAC Main", "AAC LC", "AAC SSR", "AAC LTP", "HE-AAC", "HE-AAC v2">>

\* parseADTS(data, offset): <<>> for null, or <<header>>
parseADTS(data, offset) ==
    IF AdtsTooShort(data, offset) THEN << >>
    ELSE LET syncword == Or(Shl(At(data, offset), 4), Shr(At(data, offset + 1), 4))
         IN  IF syncword # 4095 THEN << >>
             ELSE LET protectionAbsent == And(At(data, offset + 1), 1)
                      profile == And(Shr(At(data, offset + 2), 6), 3) + 1
                      sampleRateIndex == And(Shr(At(data, offset + 2), 2), 15)
                      channelConfig == Or(Shl(And(At(data, offset + 2), 1), 2),
                                          And(Shr(At(data, offset + 3), 6), 3))
                  IN  << [syncword |-> syncword,
                          profile |-> profile,
                          profileName |-> IF profile < Len(profiles) /\ profiles[profile + 1] # ""
                                          THEN profiles[profile + 1]
                                          ELSE "Profile",
                          sampleRateIndex |-> sampleRateIndex,
                          sampleRate |-> IF sampleRateIndex < Len(sampleRates)
                                         THEN Number(sampleRates[sampleRateIndex + 1])
                                         ELSE Undefined,
                          channelConfig |-> channelConfig,
                          channels |-> IF channelConfig = 7 THEN 8 ELSE channelConfig,
                          frameLength |-> frameLength(data, offset),
                          headerSize |-> headerSize(protectionAbsent),
                          protectionAbsent |-> protectionAbsent,
                          dataLength |-> frameLength(data, offset) - headerSize(protectionAbsent)] >>

\* a call of parseADTS
ParseADTS(data, offset) ==
    /\ adts' = [called |-> TRUE, data |-> data, offset |-> offset, header |-> parseADTS(data, offset)]
    /\ UNCHANGED outsideAdts

\* Inputs
AdtsHeaders ==
    {<<255, b1, b2, b3, b4, b5, 252>> :
        b1 \in {240, 241}, b2 \in {80, 255, 1, 150}, b3 \in {128, 3, 124, 193},
        b4 \in {0, 255, 1}, b5 \in {31, 224, 255}}
AdtsOthers ==
    {<< >>,
     <<255, 241, 80, 128, 0, 31>>,
     <<127, 241, 80, 128, 0, 31, 252>>,
     <<255, 225, 80, 128, 0, 31, 252>>,
     <<255, 15, 80, 128, 0, 31, 252, 33>>,
     <<0, 255, 241, 80, 128, 0, 31, 252>>,
     <<0, 0, 255, 240, 80, 128, 1, 127, 252, 9, 9>>,
     FrameADTS7 \o FrameADTS9}
AdtsOffsets == {0, 1, 2, 9, 12}
AdtsCalls ==
    {[data |-> d, offset |-> 0] : d \in AdtsHeaders}
        \cup {[data |-> d, offset |-> o] : d \in AdtsOthers, o \in AdtsOffsets}

NextADTS == \E c \in AdtsCalls : ParseADTS(c.data, c.offset)

SpecADTS == Init /\ [][NextADTS]_vars

----------------------------------------------------------------------------
(* Properties of parseADTS (SpecADTS) *)

\* C16: parseADTS(data, offset) returns null exactly when fewer than 7 bytes
\* remain from offset or the 12 bits at offset are not 0xFFF; in every other
\* case it returns a header.
C16_NullExactlyWhenNoHeader ==
    adts.called
        => LET d == adts.data
               o == adts.offset
               short == Len(d) - o < 7
               sync == d[o + 1] = 255 /\ d[o + 2] \div 16 = 15
           IN  /\ (adts.header = << >>) <=> (short \/ ~ sync)
               /\ Len(adts.header) <= 1

\* seven bytes remain from a positive offset, the 12 bits there are not
\* 0xFFF, and null is returned
C16_Witness ==
    /\ adts.called
    /\ adts.offset > 0
    /\ Len(adts.data) - adts.offset >= 7
    /\ adts.header = << >>

\* C17: for bytes with sync 0xFFF, the header parseADTS returns has object
\* type = the 2-bit profile field + 1, the 4-bit sample-rate index, the 3-bit
\* channel configuration split across bytes 2 and 3, the 13-bit frame length
\* split across bytes 3 to 5, and headerSize 7 when protection-absent is 1 and
\* 9 otherwise; on [0xFF, 0xF1, 0x50, 0x80, 0x00, 0x1F, 0xFC] it has
\* protectionAbsent 1, headerSize 7, object type 2 and sampleRateIndex 4.
C17_HeaderFields ==
    LET d == adts.data
        o == adts.offset
        b(k) == d[o + k + 1]
    IN  /\ (adts.called /\ adts.header # << >>)
            => LET h == adts.header[1]
               IN  /\ h.profile = (b(2) \div 64) + 1
                   /\ h.sampleRateIndex = (b(2) \div 4) % 16
                   /\ h.channelConfig = 4 * (b(2) % 2) + (b(3) \div 64)
                   /\ h.frameLength = 2048 * (b(3) % 4) + 8 * b(4) + (b(5) \div 32)
                   /\ h.protectionAbsent = b(1) % 2
                   /\ h.headerSize = (IF b(1) % 2 = 1 THEN 7 ELSE 9)
        /\ (adts.called /\ d = <<255, 241, 80, 128, 0, 31, 252>> /\ o = 0)
            => /\ adts.header # << >>
               /\ adts.header[1].protectionAbsent = 1
               /\ adts.header[1].headerSize = 7
               /\ adts.header[1].profile = 2
               /\ adts.header[1].sampleRateIndex = 4

\* a header with every bit of the frame length set, and a CRC
C17_Witness ==
    /\ adts.called
    /\ adts.data = <<255, 240, 255, 3, 255, 255, 252>>
    /\ adts.header # << >>
    /\ adts.header[1].frameLength = 8191
    /\ adts.header[1].channelConfig = 4
    /\ adts.header[1].sampleRateIndex = 15
    /\ adts.header[1].headerSize = 9

\* C18: every header parseADTS returns has frameLength >= headerSize and
\* dataLength = frameLength - headerSize >= 0; a recognised header with a
\* smaller frameLength is not returned as a header.
C18_FrameLengthCoversHeader ==
    (adts.called /\ adts.header # << >>)
        => LET h == adts.header[1]
           IN  /\ h.frameLength >= h.headerSize
               /\ h.dataLength = h.frameLength - h.headerSize
               /\ h.dataLength >= 0

----------------------------------------------------------------------------
(* lab/decode_mp4_complete.js, extractAudioFromMP4: the AudioSpecificConfig *)
(* read from the payload of the esds box (esds.data), with MP4Parser.       *)

\* buffer.slice(start, end): a negative index counts from the end, and both
\* are clamped to the buffer
BufferSlice(buffer, start, end) ==
    LET clamp(i) == IF i < 0 THEN (IF Len(buffer) + i < 0 THEN 0 ELSE Len(buffer) + i)
                    ELSE Min(i, Len(buffer))
    IN  IF clamp(start) < clamp(end) THEN SubSeq(buffer, clamp(start) + 1, clamp(end)) ELSE << >>

\* buffer.readUInt8(offset) throws a RangeError outside the buffer
ReadFails(buffer, offset) == offset < 0 \/ offset >= Len(buffer)

\* do { byte = esdsParser.readUInt8(); size = (size << 7) | (byte & 0x7F) }
\* while (byte & 0x80), from the parser's offset: the size and the offset it
\* ends with, or where the read failed
RECURSIVE readSize(_, _, _)
readSize(buffer, offset, size) ==
    IF ReadFails(buffer, offset) THEN [ok |-> FALSE, size |-> size, offset |-> offset]
    ELSE LET byte == buffer[offset + 1]
             next == Or(Shl(size, 7), And(byte, 127))
         IN  IF And(byte, 128) # 0 THEN readSize(buffer, offset + 1, next)
             ELSE [ok |-> TRUE, size |-> next, offset |-> offset + 1]

\* the parser's locals when the esds block is left: by a RangeError of
\* readUInt8, with audioConfig still null after a tag that is not the
\* expected one, or with the audioConfig read
EsdsLeft(data, outcome, config, size, sizeAt, offset) ==
    [called |-> TRUE, payload |-> data, outcome |-> outcome, audioConfig |-> config,
     size |-> size, sizeAt |-> sizeAt, offset |-> offset]

\* the esds block of extractAudioFromMP4 on esds.data
EsdsParse(data) ==
    LET Thrown(size, sizeAt, offset) == EsdsLeft(data, "throw:RangeError", << >>, size, sizeAt, offset)
        Null(size, sizeAt, offset) == EsdsLeft(data, "null", << >>, size, sizeAt, offset)
        atEs == 4
        es == readSize(data, atEs + 1, 0)
        atDecoderConfig == es.offset + 3
        decoderConfig == readSize(data, atDecoderConfig + 1, 0)
        atSpecificInfo == decoderConfig.offset + 13
        specificInfo == readSize(data, atSpecificInfo + 1, 0)
    IN  IF ReadFails(data, atEs) THEN Thrown(0, 0, atEs)
        ELSE IF data[atEs + 1] # 3 THEN Null(0, 0, atEs + 1)
        ELSE IF ~ es.ok THEN Thrown(es.size, atEs + 1, es.offset)
        ELSE IF ReadFails(data, atDecoderConfig) THEN Thrown(es.size, atEs + 1, atDecoderConfig)
        ELSE IF data[atDecoderConfig + 1] # 4 THEN Null(es.size, atEs + 1, atDecoderConfig + 1)
        ELSE IF ~ decoderConfig.ok
             THEN Thrown(decoderConfig.size, atDecoderConfig + 1, decoderConfig.offset)
        ELSE IF ReadFails(data, atSpecificInfo)
             THEN Thrown(decoderConfig.size, atDecoderConfig + 1, atSpecificInfo)
        ELSE IF data[atSpecificInfo + 1] # 5
             THEN Null(decoderConfig.size, atDecoderConfig + 1, atSpecificInfo + 1)
        ELSE IF ~ specificInfo.ok
             THEN Thrown(specificInfo.size, atSpecificInfo + 1, specificInfo.offset)
        ELSE EsdsLeft(data, "config",
                      << BufferSlice(data, specificInfo.offset, specificInfo.offset + specificInfo.size) >>,
                      specificInfo.size, atSpecificInfo + 1, specificInfo.offset + specificInfo.size)

\* extractAudioFromMP4 reaching the esds box of the audio track
ParseEsds(data) ==
    /\ esds' = EsdsParse(data)
    /\ UNCHANGED outsideEsds

\* Inputs
\* version and flags, then the three nested descriptors
EsdsPayload(tagEs, sizeEs, tagDc, sizeDc, tagDsi, sizeDsi, asc) ==
    <<0, 0, 0, 0>> \o <<tagEs>> \o sizeEs \o <<0, 1, 0>>
        \o <<tagDc>> \o sizeDc \o <<64, 21, 0, 0, 0, 0, 1, 244, 0, 0, 1, 244, 0>>
        \o <<tagDsi>> \o sizeDsi \o asc

DsiSizes ==
    {<<2>>, <<4>>, <<0>>, <<5>>, <<129, 0>>, <<128, 2>>, <<128, 128, 2>>, <<128, 128, 128, 2>>,
     <<128, 128, 128, 128, 2>>, <<129, 130, 131, 4>>, <<255, 255, 255, 127>>,
     <<255, 255, 255, 255, 127>>}

StandardEsds == EsdsPayload(3, <<25>>, 4, <<17>>, 5, <<2>>, <<18, 16>>)

EsdsPayloads ==
    {EsdsPayload(t1, s1, t2, <<17>>, t3, s3, asc) :
        t1 \in {3, 4}, s1 \in {<<25>>, <<128, 128, 128, 25>>}, t2 \in {4, 5},
        t3 \in {5, 6}, s3 \in DsiSizes, asc \in {<<18, 16>>, <<43, 146, 8, 0>>}}
        \cup {SubSeq(StandardEsds, 1, n) : n \in 0..Len(StandardEsds)}

NextEsds == \E data \in EsdsPayloads : ParseEsds(data)

SpecEsds == Init /\ [][NextEsds]_vars

----------------------------------------------------------------------------
(* Properties of the esds parsing (SpecEsds) *)

\* the bytes of the length field the parser read last, when the field is all
\* inside the payload: the bytes up to the first one without continuation bit
LastSizeField ==
    LET d == esds.payload
        a == esds.sizeAt
        ends(n) == /\ a + n <= Len(d)
                   /\ d[a + n] < 128
                   /\ \A k \in 1..(n - 1) : d[a + k] >= 128
    IN  IF esds.called /\ a > 0 /\ \E n \in 1..(Len(d) - a) : ends(n)
        THEN SubSeq(d, a + 1, a + (CHOOSE n \in 1..(Len(d) - a) : ends(n)))
        ELSE << >>

\* the low 7 bits of each byte, in order, as one number
RECURSIVE Concat7(_)
Concat7(bytes) ==
    IF bytes = << >> THEN 0
    ELSE 128 * Concat7(SubSeq(bytes, 1, Len(bytes) - 1)) + (bytes[Len(bytes)] % 128)

\* C19: a descriptor length of 1 to 4 bytes decodes to the concatenation of
\* the low 7 bits of its bytes, in order; a length whose 4th byte still has
\* the continuation bit is rejected as a malformed descriptor, its 5th byte
\* not consumed.
C19_DescriptorLength ==
    LET d == esds.payload
        a == esds.sizeAt
    IN  /\ Len(LastSizeField) \in 1..4 => esds.size = Concat7(LastSizeField)
        /\ (/\ esds.called
            /\ a > 0
            /\ a + 4 <= Len(d)
            /\ \A k \in 1..4 : d[a + k] >= 128)
                => /\ esds.outcome = "throw:MalformedDescriptor"
                   /\ esds.offset <= a + 4

\* the part of C19 about lengths of 1 to 4 bytes
C19_UpToFourBytes ==
    Len(LastSizeField) \in 1..4 => esds.size = Concat7(LastSizeField)

\* a 4-byte length, decoded
C19_FourBytesRead ==
    /\ esds.outcome = "config"
    /\ LastSizeField = <<129, 130, 131, 4>>
    /\ esds.size = 2130308

\* C20: the esds parsing ends either with an AudioSpecificConfig of exactly
\* the length its descriptor declares, read along the tags 0x03, 0x04, 0x05,
\* or with an error: a tag that is not the expected one, and a declared length
\* beyond the bytes that remain, are reported and yield no record.
C20_DeclaredLengthOrError ==
    esds.called
        => /\ esds.outcome # "null"
           /\ esds.outcome = "config"
                => /\ esds.audioConfig # << >>
                   /\ Len(esds.audioConfig[1]) = esds.size

\* the part of C20 about the path: a record is read only after the three tags
C20_OnlyAlongThePath ==
    (esds.called /\ esds.audioConfig # << >>)
        => LET d == esds.payload
               a == esds.sizeAt
           IN  /\ d[5] = 3
               /\ d[a] = 5
               /\ d[a - 14 - 1] = 4 \/ d[a - 14 - 2] = 4

----------------------------------------------------------------------------
(* lab/decode_mp4_complete.js, MP4Parser: readBox, findBox, findBoxPath.    *)
(* One step is one turn of findBox's loop, that is one readBox call.        *)

\* buffer.readUInt32BE(offset) throws a RangeError unless 4 bytes are there
UInt32Fails(buffer, offset) == offset < 0 \/ offset + 4 > Len(buffer)

\* buffer.readUInt32BE(offset); the inputs keep the first byte below 128
readUInt32BE(buffer, offset) ==
    ((buffer[offset + 1] * 256 + buffer[offset + 2]) * 256 + buffer[offset + 3]) * 256
        + buffer[offset + 4]

\* buffer.toString('ascii'): the highest bit of every byte is unset
Ascii(bytes) == [i \in 1..Len(bytes) |-> bytes[i] % 128]

\* (mutant) the payload is read from the box's start
BoxData_FromHeader(buffer, offset, size) == BufferSlice(buffer, offset, offset + size - 8)

\* readBox's `this.read(size - 8)`, for a box that starts at offset: read
\* slices from the parser's offset, which is 8 further by then
BoxData(buffer, offset, size) == BufferSlice(buffer, offset + 8, offset + 8 + size - 8)

\* readBox() of a parser over buffer at offset < buffer.length, when
\* readUInt32 does not throw: the box, with the parser's offset before (from)
\* and after (to) and the length of the buffer
readBox(buffer, offset) ==
    LET size == readUInt32BE(buffer, offset)
    IN  [type |-> Ascii(BufferSlice(buffer, offset + 4, offset + 8)),
         size |-> size,
         data |-> BoxData(buffer, offset, size),
         from |-> offset,
         to |-> offset + 4 + 4 + (size - 8),
         length |-> Len(buffer)]

\* findBoxPath(types) on a parser over buffer, up to its first readBox
FindBoxPath(buffer, types) ==
    /\ walk.status # "walking"
    /\ walk' = [status |-> IF types = << >> THEN "found" ELSE "walking",
                buffer |-> buffer, types |-> types, current |-> buffer, rest |-> types,
                offset |-> 0, box |-> << >>]
    /\ UNCHANGED outsideWalk

\* one turn of `while (parser.offset < data.length)` in findBox, with what
\* findBoxPath does when findBox returns
ReadBoxStep ==
    /\ walk.status = "walking"
    /\ UNCHANGED outsideWalk
    /\ IF walk.offset >= Len(walk.current)
       THEN walk' = [walk EXCEPT !.status = "null"]
       ELSE IF UInt32Fails(walk.current, walk.offset)
       THEN walk' = [walk EXCEPT !.status = "throw:RangeError"]
       ELSE LET box == readBox(walk.current, walk.offset)
            IN  IF box.type = Head(walk.rest)
                THEN walk' = [walk EXCEPT !.status = IF Tail(walk.rest) = << >> THEN "found" ELSE "walking",
                                          !.current = box.data,
                                          !.rest = Tail(walk.rest),
                                          !.offset = 0,
                                          !.box = << box >>]
                ELSE walk' = [walk EXCEPT !.offset = box.to, !.box = << box >>]

\* Inputs
Type_moov == <<109, 111, 111, 118>>
Type_trak == <<116, 114, 97, 107>>
Type_mdia == <<109, 100, 105, 97>>
Type_free == <<102, 114, 101, 101>>
SizeBytes(n) == <<0, 0, n \div 256, n % 256>>
Box(type, payload) == SizeBytes(8 + Len(payload)) \o type \o payload

WalkBuffers ==
    {<< >>,
     Box(Type_free, <<1, 2>>)
        \o Box(Type_moov, Box(Type_trak, Box(Type_mdia, <<7>>)) \o Box(Type_trak, Box(Type_mdia, <<9>>)))
        \o Box(Type_moov, Box(Type_trak, << >>)),
     Box(Type_moov, Box(Type_free, << >>)) \o Box(Type_moov, Box(Type_trak, <<5>>)),
     Box(Type_trak, Box(Type_mdia, << >>)) \o Box(Type_free, << >>),
     Box(Type_free, << >>) \o <<0, 0>>,
     SizeBytes(0) \o Type_free \o Box(Type_moov, Box(Type_trak, <<5>>)),
     SizeBytes(4) \o Type_free \o Box(Type_moov, << >>),
     SizeBytes(100) \o Type_moov \o Box(Type_trak, <<1, 2, 3>>),
     Box(Type_moov, SizeBytes(40) \o Type_trak \o Box(Type_mdia, <<1>>)) \o Box(Type_free, << >>),
     <<0, 0, 0, 0, 0, 0, 0, 1>> \o Box(Type_mdia, <<3>>),
     <<0, 0, 0, 16, 109, 111>>}

WalkPaths ==
    {<< >>, <<Type_moov>>, <<Type_trak>>, <<Type_free>>, <<Type_mdia>>,
     <<Type_moov, Type_trak>>, <<Type_moov, Type_trak, Type_mdia>>, <<Type_trak, Type_mdia>>}

NextWalk ==
    \/ \E b \in WalkBuffers, t \in WalkPaths : FindBoxPath(b, t)
    \/ ReadBoxStep

SpecWalk == Init /\ [][NextWalk]_vars

\* the loop keeps turning for as long as its condition holds
SpecWalkLive == SpecWalk /\ WF_vars(ReadBoxStep)

----------------------------------------------------------------------------
(* Properties of the box walker (SpecWalk, SpecWalkLive) *)

\* C21: readBox never returns a box whose payload is shorter than its
\* declared size minus 8, and it never leaves the parser's offset past the end
\* of the buffer: a header that declares more than the bytes that remain is an
\* error, not a box.
C21_BoxFitsItsBuffer ==
    walk.box # << >>
        => LET b == walk.box[1]
           IN  /\ Len(b.data) >= b.size - 8
               /\ b.to <= b.length

\* the part of C21 about boxes that do fit: their payload is size - 8 bytes
C21_FittingBoxIsWhole ==
    (walk.box # << >> /\ walk.box[1].size >= 8
        /\ walk.box[1].from + walk.box[1].size <= walk.box[1].length)
        => /\ Len(walk.box[1].data) = walk.box[1].size - 8
           /\ walk.box[1].to = walk.box[1].from + walk.box[1].size

\* C22: a walk over a finite buffer ends, with a match or with not-found:
\* every readBox that returns a box has moved the offset at least 8 bytes on.
C22_WalkEnds == (walk.status = "walking") ~> (walk.status # "walking")

\* the part of C22 about one readBox call
C22_EveryBoxAdvances ==
    walk.box # << >> => walk.box[1].to >= walk.box[1].from + 8

\* What C23 speaks of. A buffer is a row of boxes when it is empty or starts
\* with a box of 8 <= size <= its length that is followed by a row of boxes.
RECURSIVE RowOfBoxes(_)
RowOfBoxes(buf) ==
    \/ buf = << >>
    \/ /\ Len(buf) >= 8
       /\ readUInt32BE(buf, 0) >= 8
       /\ readUInt32BE(buf, 0) <= Len(buf)
       /\ RowOfBoxes(SubSeq(buf, readUInt32BE(buf, 0) + 1, Len(buf)))

\* the payload of the first box of the given type in a row of boxes, as
\* <<payload>>, or <<>> when the row has none
RECURSIVE FirstOfType(_, _)
FirstOfType(buf, type) ==
    IF buf = << >> THEN << >>
    ELSE LET size == readUInt32BE(buf, 0)
         IN  IF SubSeq(buf, 5, 8) = type THEN << SubSeq(buf, 9, size) >>
             ELSE FirstOfType(SubSeq(buf, size + 1, Len(buf)), type)

\* the payload reached by taking the first box of each type in turn
RECURSIVE FirstMatchPath(_, _)
FirstMatchPath(buf, types) ==
    IF types = << >> THEN << buf >>
    ELSE IF FirstOfType(buf, Head(types)) = << >> THEN << >>
    ELSE FirstMatchPath(FirstOfType(buf, Head(types))[1], Tail(types))

\* every level the path looks into is a row of boxes
RECURSIVE RowsAlongPath(_, _)
RowsAlongPath(buf, types) ==
    \/ types = << >>
    \/ /\ RowOfBoxes(buf)
       /\ FirstOfType(buf, Head(types)) # << >>
            => RowsAlongPath(FirstOfType(buf, Head(types))[1], Tail(types))

C23_ThreeLevels ==
    /\ walk.status = "found"
    /\ walk.types = <<Type_moov, Type_trak, Type_mdia>>
    /\ walk.current = <<7>>

----------------------------------------------------------------------------
(* Properties of the decoder's life cycle, continued (Spec) *)

\* step a comes before step b in a call's steps
Before(steps, a, b) ==
    \E i, j \in 1..Len(steps) : i < j /\ steps[i] = a /\ steps[j] = b

\* C24: in a decode call the input region is allocated before the output
\* region, both before the engine is invoked, the input region is released
\* after the engine has returned and before the status decides anything, and
\* on a positive status the samples are copied out before the output region
\* is released, which is the call's last step; the pcm a caller got from
\* decode holds the same samples after every later call on the decoder.
C24_StepOrderAndOwnedPcm ==
    [][/\ kept # << >> => SamplesOf(kept[1], outRegion') = SamplesOf(kept[1], outRegion)
       /\ ReachedEngine(last', "decode")
            => LET steps == last'.steps
               IN  /\ Before(steps, "malloc(in)", "malloc(out)")
                   /\ Before(steps, "malloc(out)", "_decode_frame")
                   /\ EngineReturned(last', "decode") => Before(steps, "_decode_frame", "free(in)")
                   /\ last'.outcome = "null"
                        => /\ Before(steps, "free(in)", "free(out)")
                           /\ ~ \E i \in 1..Len(steps) : steps[i] = "slice"
                   /\ last'.outcome = "result"
                        => /\ Before(steps, "free(in)", "slice")
                           /\ Before(steps, "slice", "free(out)")
                           /\ steps[Len(steps)] = "free(out)"
                           /\ kept' # << >>]_vars

\* a later decode has left other samples in the output region than the ones
\* the kept pcm holds
C24_Witness ==
    /\ kept # << >>
    /\ kept[1].samples # outRegion
    /\ last.op = "decode"
    /\ last.outcome = "result"

\* C25: whatever the order in which a suspended configure, decode, reset and
\* destroy run, (a) a decode call made while the configure is still suspended
\* and the decoder is Unconfigured is rejected as not-initialized before the
\* engine is reached, and (b) once reset() or destroy() has returned, the
\* decoder stays Unconfigured until a configure call issued afterwards
\* succeeds: the step that follows a teardown directly is not such a call's
\* success (issuing a call is a step of its own), so it leaves the decoder
\* Unconfigured.
C25_ConfigureCompletesBeforeUse ==
    [][/\ (last'.op = "decode" /\ pending # << >> /\ ~ initialized)
            => /\ last'.outcome = "throw:NotInitialized"
               /\ last'.call = NoCall
       /\ last.op \in {"reset", "destroy"} => ~ initialized']_vars

\* part (a) of C25
C25_DecodeWhileSuspendedIsRejected ==
    [][(last'.op = "decode" /\ pending # << >> /\ ~ initialized)
            => /\ last'.outcome = "throw:NotInitialized"
               /\ last'.call = NoCall]_vars

\* C26: a configure call whose engine initialize returns a negative result
\* throws and leaves initialized, sampleRate and channels as they were: an
\* Unconfigured decoder stays Unconfigured, and a decoder an earlier configure
\* has Configured still passes decode's guard.
C26_FailedConfigureChangesNothing ==
    [][(/\ EngineReturned(last', "configure")
        /\ last'.call[1].ret[1] < 0
        /\ pending' # pending)
            => /\ last'.outcome = "throw:InitFailed"
               /\ initialized' = initialized
               /\ sampleRate' = sampleRate
               /\ channels' = channels
               /\ initialized => ~ NotReady(module', initialized')]_vars

\* a Configured decoder, with the rate and channels of a decoded frame, after
\* a configure call that failed
C26_Witness ==
    /\ last.op = "configure"
    /\ last.outcome = "throw:InitFailed"
    /\ initialized
    /\ sampleRate = 48000
    /\ channels = 2

----------------------------------------------------------------------------
(* The status word's sign and the size of the output view (SpecDecode) *)

\* C27: every status word with a channel count in 1..2, a non-zero sample
\* count and a sample-rate index of the decoder's table (1..9) produces a
\* decode result at the table's rate, indices 8 and 9 (bit 31 set) included:
\* such a word is not taken for the no-output case.
C27_EveryTableIndexYieldsResult ==
    EngineReturned(last, "decode")
        => LET w == last.call[1].ret[1]
           IN  (/\ StatusIndex(w) \in DOMAIN SAMPLE_RATE
                /\ StatusChannels(w) \in 1..maxChannels
                /\ StatusSamples(w) # 0)
                    => /\ last.outcome # "null"
                       /\ last.outcome = "result"
                            => last.result[1].sampleRate = SAMPLE_RATE[StatusIndex(w)]

\* what does hold: the indices whose encoding leaves bit 31 clear (1..7)
C27_IndicesBelowEightYieldResult ==
    EngineReturned(last, "decode")
        => LET w == last.call[1].ret[1]
           IN  (/\ StatusIndex(w) \in 1..7
                /\ StatusChannels(w) \in 1..maxChannels
                /\ StatusSamples(w) \in 1..maxSamples)
                    => /\ last.outcome = "result"
                       /\ last.result[1].sampleRate = SAMPLE_RATE[StatusIndex(w)]

\* C28: for every positive status word the view decode takes over the output
\* region has no element beyond the maxSamples (8192) elements the region was
\* allocated for, so that taking the view cannot fail either.
C28_ViewStaysInsideOutputRegion ==
    (EngineReturned(last, "decode") /\ ~ NoOutput(last.call[1].ret[1]))
        => LET w == last.call[1].ret[1]
               view == View(last.call[1].outSize, StatusSamples(w))
           IN  /\ view.length <= maxSamples
               /\ view.beyond = 0
               /\ last.outcome # "throw:RangeError"
               /\ last.outcome = "result" => last.result[1].pcm = view

\* what does hold: a sample count within the worst case stays inside
C28_WorstCaseStaysInside ==
    (EngineReturned(last, "decode") /\ ~ NoOutput(last.call[1].ret[1]))
        => LET w == last.call[1].ret[1]
           IN  StatusSamples(w) <= maxSamples
                    => /\ last.outcome = "result"
                       /\ last.result[1].pcm.beyond = 0

----------------------------------------------------------------------------
(* The ADTS frame loop of the HE-AAC test (test_heaac_v2.js) *)

\* const maxFrames = 50 (the loop's limit, not decode's maxFrames)
loopMaxFrames == 50

\* result && result.pcm && result.pcm.length > 0, for what the decode call did
GotPcm(l) == l.outcome = "result" /\ l.result[1].pcm.length > 0

\* offset += frameInfo.frameLength
nextFrameOffset(frameInfo, offset) == offset + frameInfo.frameLength

\* let offset = 0; let frameCount = 0; after `await decoder.configure(aacData)`
EnterLoop(aacData) ==
    /\ loop.status = "none"
    /\ ~ NotReady(module, initialized)
    /\ loop' = [NoLoop EXCEPT !.status = "looping", !.aacData = aacData]
    /\ UNCHANGED outsideLoop

\* one turn of `while (offset < aacData.length && frameCount < maxFrames)`:
\* the condition, parseADTS, slice, decoder.decode in its try, offset += frameLength
LoopTurn(g, e) ==
    /\ loop.status = "looping"
    /\ UNCHANGED <<mp4Vars, adts, esds, walk>>
    /\ IF ~ (loop.offset < Len(loop.aacData) /\ loop.frameCount < loopMaxFrames)
       THEN /\ loop' = [loop EXCEPT !.status = "done"]
            /\ UNCHANGED decoderVars
       ELSE \E frameInfo \in {parseADTS(loop.aacData, loop.offset)} :
                IF frameInfo = << >>
                THEN /\ loop' = [loop EXCEPT !.status = "break"]
                     /\ UNCHANGED decoderVars
                ELSE IF outstanding >= MaxOutstanding
                THEN \* (bound) a run that has leaked MaxOutstanding regions is not followed further
                     /\ loop' = [loop EXCEPT !.status = "cut"]
                     /\ UNCHANGED decoderVars
                ELSE \E frameData \in {BufferSlice(loop.aacData, loop.offset,
                                                   loop.offset + frameInfo[1].frameLength)} :
                         /\ DecodeCall(frameData, g, e)
                         /\ loop' = [loop EXCEPT !.offset = nextFrameOffset(frameInfo[1], loop.offset),
                                                 !.frameCount = IF GotPcm(last') THEN @ + 1 ELSE @,
                                                 !.frameInfo = frameInfo]

\* Inputs
\* a 7-byte header whose 13-bit frameLength is 7, 9 and 0
Header7 == <<255, 241, 80, 128, 0, 224, 252>>
Header9 == <<255, 241, 80, 128, 1, 63, 252>>
Header0 == <<255, 241, 80, 128, 0, 31, 252>>
LoopBuffers ==
    {<< >>,
     FrameRaw,
     Header7,
     Header7 \o Header7,
     Header9 \o <<33, 34>> \o Header7,
     Header9,
     Header7 \o FrameRaw,
     Header0,
     Header7 \o Header0 \o <<33, 34>>}
LoopEngine ==
    {Trap, Returns(0), Returns(Pack(6, 2, 0)), Writes(Pack(6, 2, 4660), 1)}

\* the loop body with any heap contents and any engine outcome
LoopIteration == \E g \in GarbageBytes, e \in LoopEngine : LoopTurn(g, e)

NextLoop ==
    \/ \E b \in LoopBuffers : EnterLoop(b)
    \/ LoopIteration

SpecLoop == InitConfigured /\ [][NextLoop]_vars

\* the loop keeps turning for as long as it has not ended
SpecLoopLive == SpecLoop /\ WF_vars(LoopIteration)

----------------------------------------------------------------------------
(* Properties of the frame loop (SpecLoop, SpecLoopLive) *)

\* C29: the frame loop terminates on every input buffer and every decoder
\* behaviour, a header whose frameLength is 0 and whose decode yields no output
\* included.
C29_FrameLoopTerminates == (loop.status = "looping") ~> (loop.status # "looping")

\* the step the claim rests on: every turn of the loop either ends it or moves
\* the offset strictly forward
C29_EveryTurnAdvances ==
    [][loop.status = "looping"
            => (loop'.status # "looping" \/ loop'.offset > loop.offset)]_vars

\* what does hold: a turn that does not end the loop moves the offset by the
\* header's frameLength, strictly forward when that is not 0, and counts the
\* frame exactly when decode returned samples
C29_TurnMovesByFrameLength ==
    [][(loop.status = "looping" /\ loop'.status = "looping")
            => /\ loop'.frameInfo = parseADTS(loop.aacData, loop.offset)
               /\ loop'.frameInfo # << >>
               /\ loop'.offset = loop.offset + loop'.frameInfo[1].frameLength
               /\ loop'.frameInfo[1].frameLength > 0 => loop'.offset > loop.offset
               /\ loop'.frameCount = loop.frameCount + (IF GotPcm(last') THEN 1 ELSE 0)
               /\ loop'.frameCount <= loopMaxFrames]_vars

----------------------------------------------------------------------------
(* The record configure hands to the engine (SpecConfigure) *)

\* the input is ADTS-framed: at least 7 bytes, first 12 bits 0xFFF
AdtsFramed(d) == Len(d) >= 7 /\ d[1] = 255 /\ d[2] \div 16 = 15

\* C30: the record configure passes to the engine is the whole input when
\* autoDetect is false or the input has at most 2 bytes, the ASC derived from
\* the ADTS header when autoDetect is true and the input is ADTS-framed, and
\* otherwise the input in full: a 4-byte extended ASC given with the default
\* autoDetect reaches the engine with all 4 bytes.
C30_RecordPassedToEngine ==
    ReachedEngine(last, "configure")
        => LET d == last.input
               record == last.call[1].mem
           IN  /\ (~ last.auto \/ Len(d) <= 2) => record = d
               /\ (last.auto /\ Len(d) > 2 /\ AdtsFramed(d))
                    => (Len(record) = 2 /\ << record >> = _extractASC(d))
               /\ (last.auto /\ Len(d) > 2 /\ ~ AdtsFramed(d)) => record = d

\* what does hold: with autoDetect, an input of more than 2 bytes that is not
\* ADTS-framed reaches the engine as its first 2 bytes
C30_DetectedRecordIsTwoBytes ==
    ReachedEngine(last, "configure")
        => LET d == last.input
               record == last.call[1].mem
           IN  /\ (~ last.auto \/ Len(d) <= 2) => record = d
               /\ (last.auto /\ Len(d) > 2) => Len(record) = 2
               /\ (last.auto /\ Len(d) > 2 /\ ~ AdtsFramed(d)) => record = <<d[1], d[2]>>

====
